---- MODULE Spec2Model ----
(***************************************************************************)
(* Model of src/src/scheduler.py: YouTubeScraperScheduler, a configuration *)
(* layer over APScheduler's BackgroundScheduler with a persistent job      *)
(* store (jobs.sqlite) and a thread-pool executor.                         *)
(*                                                                         *)
(* Time is counted in whole hours.  The store outlives the process; the    *)
(* executor's instance counters and the work items do not.  The library    *)
(* calls are modelled by what APScheduler 3 does at the call sites, the    *)
(* job store taken to accept and return every job handed to it.            *)
(***************************************************************************)
EXTENDS Integers, Sequences, FiniteSets, Bags, TLC

\* ------------------------------------------------------------- bounds
MaxTime == 2
MaxJobs == 2
MaxItems == 3
MaxRemoved == 1
\* invocations of a wrapped function whose outcome is given
MaxCalls == 4
\* pages the API has for a listing, items on a page, videos pytube finds, and
\* the largest max_results asked for
MaxPages == 2
MaxPageItems == 2
MaxUrls == 2
MaxResults == 2
\* 'max_threads' of the configuration: ThreadPoolExecutor(self.config.get('max_threads', 20))
max_threads == 2

\* -------------------------------------------------- program constants
\* job_defaults of _setup_scheduler; misfire_grace_time is 3600 s = 1 hour
max_instances == 3
misfire_grace_time == 1
\* max_retries of handle_rate_limit
max_retries == 3
\* a job's next_run_time while it is paused
None == -1
\* hours in a day: IntervalTrigger(days=1), and the period of a cron hour field
DayHours == 24

Max(a, b) == IF a >= b THEN a ELSE b
\* ceil(a / b) for a >= 0, b > 0
CeilDiv(a, b) == (a + b - 1) \div b

\* ------------------------------------------------------------- inputs
JobTypes == {"channel", "video", "playlist", "search"}
Outcomes == {"ok", "raise"}
\* A call of schedule_<type>_scrape.  job_id "" stands for an absent job_id,
\* interval 0 for an absent interval dictionary ({'hours': n} otherwise), cron ""
\* for an absent cron dictionary ({'hour': h} otherwise), include_comments "" for
\* an omitted argument.
Call(target, include_comments, schedule_type, interval, cron, job_id) ==
  [target |-> target, include_comments |-> include_comments,
   schedule_type |-> schedule_type, interval |-> interval, cron |-> cron,
   job_id |-> job_id]
\* the calls made of each schedule method
Calls(job_type) ==
  IF job_type = "channel" THEN {Call("T", "", "interval", 1, "", "a")}
  ELSE IF job_type = "video" THEN {Call("T", "", "interval", 2, "", "b")}
  ELSE IF job_type = "playlist" THEN {Call("T", "True", "cron", 0, "*/2", "b")}
  ELSE {Call("T", "", "weekly", 0, "", "b")}

\* ---------------------------------------------------------------- ids
\* An id given by the caller.
ExplicitId(job_id) == [prefix |-> "", target |-> job_id, stamp |-> None]
\* datetime.now().strftime('%Y%m%d%H%M%S'): the clock reading cut to whole
\* seconds; two readings within the same clock value give the same text.
strftime(t) == t
\* f"{job_type}_{target}_{stamp}" of the schedule_*_scrape methods
DefaultId(job_type, target, t) ==
  [prefix |-> job_type, target |-> target, stamp |-> strftime(t)]
\* an id that is never added
UnknownId == ExplicitId("zz")
\* an absent job_id argument: `if not job_id`
NoJobId == ExplicitId("")
\* a target that is None (a configuration entry without the key): formatted
\* into a default id it reads "None"
NoTarget == "None"

VARIABLES
  now,        \* the wall clock, in hours
  schedState, \* "stopped" | "running": BackgroundScheduler of the current process
  store,      \* jobs.sqlite: job id -> job
  instances,  \* executor._instances: job id -> submitted work items not yet done
  queue,      \* the pool's work queue: run_job calls no thread has taken yet
  running,    \* the bag of run_job calls on pool threads, each inside the
              \* job function for the head of its run times
  runNow,     \* the run_job_now call in flight on the control thread
  ret,        \* the control-surface call of the last step: its name, the job id it
              \* named, the state that job was in, and what it returned: "True",
              \* "False", "ok" (no value) or "raised" (an exception left it)
  escaped,    \* ids whose job function let an exception out
  selected,   \* the jobs get_due_jobs returned to the _process_jobs pass of the
              \* last step
  skipped,    \* those of them the pass did not submit (MaxInstancesReachedError)
  events,     \* what the last step logged, with the job id: "completed" and
              \* "error" by the job function, "missed" by run_job for a run time
              \* past the grace
  config,     \* 'scheduled_jobs' of the configuration file
  removedIds, \* the ids remove_job has removed and no schedule call has added
              \* since; kept by the actions of SpecUse, empty under Spec
  util        \* the call of a function of utils.py or scraper.py being looked at:
              \* its name, its inputs and what it came to; used by SpecLib

vars ==
  <<now, schedState, store, instances, queue, running, runNow, ret, escaped, selected,
    skipped, events, config, removedIds, util>>

\* ----------------------------------------------------------- triggers
IntervalTrigger_StartNow(hours, t) ==
  [type |-> "interval", interval |-> hours, start_date |-> t, hour |-> ""]
\* IntervalTrigger(**interval): start_date defaults to now + interval
IntervalTrigger(hours, t) ==
  [type |-> "interval", interval |-> hours, start_date |-> t + hours, hour |-> ""]
\* CronTrigger(**cron) with the hour field given, minute 0
CronTrigger(hour) ==
  [type |-> "cron", interval |-> 0, start_date |-> None, hour |-> hour]

ParseSchedule_HourlyDefault(schedule_type, interval, cron, t) ==
  IF schedule_type = "interval"
    THEN IntervalTrigger(IF interval = 0 THEN 1 ELSE interval, t)
  ELSE IF schedule_type = "cron"
    THEN CronTrigger(IF cron = "" THEN "*" ELSE cron)
  ELSE IntervalTrigger(DayHours, t)
ParseSchedule_UnknownAsCron(schedule_type, interval, cron, t) ==
  IF schedule_type = "interval"
    THEN IntervalTrigger(IF interval = 0 THEN DayHours ELSE interval, t)
    ELSE CronTrigger(IF cron = "" THEN "0" ELSE cron)
\* _parse_schedule
ParseSchedule(schedule_type, interval, cron, t) ==
  IF schedule_type = "interval"
    THEN IntervalTrigger(IF interval = 0 THEN DayHours ELSE interval, t)
  ELSE IF schedule_type = "cron"
    THEN CronTrigger(IF cron = "" THEN "0" ELSE cron)
  ELSE IntervalTrigger(DayHours, t)

\* a cron hour expression matched against an hour of the day
HourMatches(expr, h) ==
  IF expr = "*" THEN TRUE
  ELSE IF expr = "*/2" THEN h % 2 = 0
  ELSE h = 0

\* the first time at or after t whose hour of day matches
CronCeil(expr, t) ==
  CHOOSE u \in t..(t + DayHours) :
    /\ HourMatches(expr, u % DayHours)
    /\ \A w \in t..(u - 1) : ~HourMatches(expr, w % DayHours)

\* get_next_fire_time with no previous fire time (a new or resumed job): the
\* trigger's first fire time not before t; for an interval trigger the first
\* start_date + k * interval
FirstFireTime(trigger, t) ==
  IF trigger.type = "interval"
    THEN IF trigger.start_date > t THEN trigger.start_date
         ELSE trigger.start_date
                + trigger.interval * CeilDiv(t - trigger.start_date, trigger.interval)
    ELSE CronCeil(trigger.hour, t)

\* get_next_fire_time after the fire time previous
FollowingFireTime(trigger, previous, t) ==
  IF trigger.type = "interval" THEN previous + trigger.interval
  ELSE IF t >= previous THEN CronCeil(trigger.hour, previous + 1)
  ELSE CronCeil(trigger.hour, t)

GetNextFireTime_Once(trigger, previous, t) ==
  IF previous # None THEN None ELSE FirstFireTime(trigger, t)
\* trigger.get_next_fire_time(previous_fire_time, now)
GetNextFireTime(trigger, previous, t) ==
  IF previous # None THEN FollowingFireTime(trigger, previous, t)
  ELSE FirstFireTime(trigger, t)

\* Job._get_run_times(now): every run time from next_run_time up to now
RECURSIVE GetRunTimes(_, _, _)
GetRunTimes(trigger, next, t) ==
  IF next = None \/ next > t THEN <<>>
  ELSE <<next>> \o GetRunTimes(trigger, GetNextFireTime(trigger, next, t), t)

\* -------------------------------------------------------------- state
NoCall == [active |-> FALSE, id |-> UnknownId, func |-> "", args |-> <<"", FALSE>>]
NoRet == [op |-> "", id |-> UnknownId, value |-> "", was |-> ""]

\* the configuration file: one channel job with an id
ConfigEntry(job_type, target, job_id, hours) ==
  [type |-> job_type, target |-> target, include_comments |-> "",
   schedule_type |-> "interval", interval |-> hours, cron |-> "", id |-> job_id]
Configs == {<<ConfigEntry("channel", "T", "a", 1)>>}

\* no call of a library function is being looked at
NoUtil == [fn |-> "", in |-> <<>>, out |-> <<>>]

Init ==
  /\ now = 0
  /\ schedState = "stopped"
  /\ store = <<>>
  /\ instances = <<>>
  /\ queue = <<>>
  /\ running = EmptyBag
  /\ runNow = NoCall
  /\ ret = NoRet
  /\ escaped = {}
  /\ selected = {}
  /\ skipped = {}
  /\ events = {}
  /\ config \in Configs
  /\ removedIds = {}
  /\ util = NoUtil

\* executor._instances is a defaultdict(int)
Inst(inst, id) == IF id \in DOMAIN inst THEN inst[id] ELSE 0
\* self._instances[job_id] -= 1, the key deleted at 0
Release(inst, id) ==
  IF Inst(inst, id) <= 1
    THEN [k \in DOMAIN inst \ {id} |-> inst[k]]
    ELSE [inst EXCEPT ![id] = @ - 1]

\* list_jobs shows a job's state through next_run_time alone
JobState(job) == IF job.next_run_time = None THEN "Paused" ELSE "Active"
StateOf(st, id) == IF id \in DOMAIN st THEN JobState(st[id]) ELSE ""
Ret(op, id, value) == [op |-> op, id |-> id, value |-> value, was |-> StateOf(store, id)]

\* ------------------------------------------------------------ add job
\* the default of include_comments in the signature of schedule_<type>_scrape
SignatureDefault(job_type) == job_type = "video"

AddJob_Replace(st, id, job_type, target, include_comments, trigger, t) ==
  [store |-> [k \in DOMAIN st \cup {id} |->
                IF k = id
                  THEN [func |-> job_type,
                        args |-> <<target, include_comments>>,
                        trigger |-> trigger,
                        next_run_time |-> GetNextFireTime(trigger, None, t)]
                  ELSE st[k]],
   raised |-> FALSE, id |-> id]

\* scheduler.add_job(func, trigger=..., args=[target, include_comments], id=job_id)
\* on a running scheduler: ConflictingIdError when the id is in the store
AddJob(st, id, job_type, target, include_comments, trigger, t) ==
  IF id \in DOMAIN st
    THEN [store |-> st, raised |-> TRUE, id |-> id]
    ELSE [store |-> (id :> [func |-> job_type,
                            args |-> <<target, include_comments>>,
                            trigger |-> trigger,
                            next_run_time |-> GetNextFireTime(trigger, None, t)])
                    @@ st,
          raised |-> FALSE, id |-> id]

\* query.replace(' ', '_') of schedule_search_scrape
Underscored(query) == IF query = "x y" THEN "x_y" ELSE query

\* schedule_channel_scrape / schedule_video_scrape / schedule_playlist_scrape /
\* schedule_search_scrape: the four differ in the job function and the id prefix
ScheduleScrape(st, job_type, target, include_comments, schedule_type, interval, cron, job_id, t) ==
  LET key == IF job_type = "search" THEN Underscored(target) ELSE target
      id == IF job_id = NoJobId THEN DefaultId(job_type, key, t) ELSE job_id
      trigger == ParseSchedule(schedule_type, interval, cron, t)
  IN IF job_type = "search" /\ job_id = NoJobId /\ target = NoTarget
       \* None has no replace: AttributeError
       THEN [store |-> st, raised |-> TRUE, id |-> NoJobId]
       ELSE AddJob(st, id, job_type, target, include_comments, trigger, t)

\* include_comments as text ("" absent) to a boolean with a default
CommentsOr(text, default) == IF text = "" THEN default ELSE text = "True"

ScheduleAction(job_type) ==
  /\ schedState = "running"
  /\ ~runNow.active
  /\ Cardinality(DOMAIN store) < MaxJobs
  /\ \E c \in Calls(job_type) :
       LET r == ScheduleScrape(store, job_type, c.target,
                               CommentsOr(c.include_comments, SignatureDefault(job_type)),
                               c.schedule_type, c.interval, c.cron,
                               ExplicitId(c.job_id), now)
       IN /\ store' = r.store
          /\ ret' = Ret("schedule", r.id, IF r.raised THEN "raised" ELSE "ok")
          \* ConflictingIdError is not caught: the process ends
          /\ schedState' = IF r.raised THEN "stopped" ELSE schedState
  /\ UNCHANGED <<now, instances, queue, running, runNow, escaped, config, removedIds, util>>
  /\ selected' = {}
  /\ skipped' = {}
  /\ events' = {}

ScheduleChannelScrape == ScheduleAction("channel")
ScheduleVideoScrape == ScheduleAction("video")
SchedulePlaylistScrape == ScheduleAction("playlist")
ScheduleSearchScrape == ScheduleAction("search")

\* ------------------------------------------------------ start and stop
\* _add_scheduled_jobs_from_config: the entries in order; the first add that
\* raises ends the loop, the exception leaving start()
RECURSIVE AddScheduledJobsFromConfig(_, _, _)
AddScheduledJobsFromConfig(entries, st, t) ==
  IF entries = <<>> THEN [store |-> st, raised |-> FALSE]
  ELSE LET job == Head(entries)
           job_id == IF job.id = "" THEN DefaultId(job.type, "", t)
                     ELSE ExplicitId(job.id)
       IN IF job.type \in JobTypes
            THEN LET r == ScheduleScrape(st, job.type, job.target,
                                         CommentsOr(job.include_comments,
                                                    job.type = "video"),
                                         job.schedule_type, job.interval, job.cron,
                                         job_id, t)
                 IN IF r.raised THEN [store |-> r.store, raised |-> TRUE]
                    ELSE AddScheduledJobsFromConfig(Tail(entries), r.store, t)
            ELSE AddScheduledJobsFromConfig(Tail(entries), st, t)

\* YouTubeScraperScheduler(config) and start() in a new process:
\* self.scheduler.start(), then self._add_scheduled_jobs_from_config(), whose
\* exception, if any, ends the process
Start ==
  /\ schedState = "stopped"
  /\ queue = <<>>
  /\ running = EmptyBag
  /\ ~runNow.active
  /\ instances' = <<>>
  /\ LET r == AddScheduledJobsFromConfig(config, store, now)
     IN /\ store' = r.store
        /\ schedState' = IF r.raised THEN "stopped" ELSE "running"
        /\ ret' = Ret("start", UnknownId, IF r.raised THEN "raised" ELSE "ok")
  /\ UNCHANGED <<now, queue, running, runNow, escaped, config, removedIds, util>>
  /\ selected' = {}
  /\ skipped' = {}
  /\ events' = {}

\* shutdown(): scheduler.shutdown(wait=True) returns once the executor's work
\* items are done; the scheduler thread is stopped
Shutdown ==
  /\ schedState = "running"
  /\ ~runNow.active
  /\ queue = <<>>
  /\ running = EmptyBag
  /\ schedState' = "stopped"
  /\ ret' = Ret("shutdown", UnknownId, "ok")
  /\ UNCHANGED <<now, store, instances, queue, running, runNow, escaped, config, removedIds,
                 util>>
  /\ selected' = {}
  /\ skipped' = {}
  /\ events' = {}

\* the wall clock
AdvanceClock ==
  /\ now < MaxTime
  /\ now' = now + 1
  /\ UNCHANGED <<schedState, store, instances, queue, running, runNow, escaped, config, removedIds,
                 util>>
  /\ ret' = NoRet
  /\ selected' = {}
  /\ skipped' = {}
  /\ events' = {}

\* ----------------------------------------------------------- dispatch
GetDueJobs_Early(st, t) ==
  {id \in DOMAIN st : st[id].next_run_time # None /\ st[id].next_run_time <= t + 1}
\* jobstore.get_due_jobs(now): next_run_time <= now; a paused job has none
GetDueJobs(st, t) ==
  {id \in DOMAIN st : st[id].next_run_time # None /\ st[id].next_run_time <= t}

\* the orders get_due_jobs may return: ascending next_run_time
DueOrders(st, t) ==
  LET due == GetDueJobs(st, t)
      n == Cardinality(due)
  IN {o \in [1..n -> due] :
        /\ \A i, j \in 1..n : i # j => o[i] # o[j]
        /\ \A i, j \in 1..n :
             i < j => st[o[i]].next_run_time <= st[o[j]].next_run_time}

CanSubmit_NoLimit(inst, id) == TRUE
\* executor.submit_job(job, run_times): MaxInstancesReachedError at the limit
CanSubmit(inst, id) == Inst(inst, id) < max_instances

\* a line of the log
Event(kind, id) == [kind |-> kind, id |-> id]

Missed_Never(run_time, t) == FALSE
\* run_job: `difference > grace_time` skips the run time
Missed(run_time, t) == t - run_time > misfire_grace_time

\* the loop of run_job up to the next call of the job function: the run times
\* left once the leading missed ones are skipped at time t
RECURSIVE SkipMissed(_, _)
SkipMissed(run_times, t) ==
  IF run_times # <<>> /\ Missed(Head(run_times), t)
    THEN SkipMissed(Tail(run_times), t)
    ELSE run_times

BagAdd(bag, e) == bag (+) SetToBag({e})
BagRemove(bag, e) == bag (-) SetToBag({e})

\* self._instances[job.id] += 1
Acquire(inst, id) == (id :> (Inst(inst, id) + 1)) @@ inst

\* a pool thread takes the run_job call e at time t: it enters the job function
\* for the first run time not missed, or is done when every run time is missed
\* and releases the instance slot
TakeItem(inst, run, e, t) ==
  LET left == SkipMissed(e.run_times, t)
  IN IF left = <<>>
       THEN [instances |-> Release(inst, e.id), running |-> run, missed |-> TRUE]
       ELSE [instances |-> inst, running |-> BagAdd(run, [e EXCEPT !.run_times = left]),
             missed |-> left # e.run_times]

\* the work item run_job(job, run_times) handed to the pool
WorkItem(id, job, run_times) ==
  [id |-> id, func |-> job.func, args |-> job.args, run_times |-> run_times]

SubmitJob_NoPool(x, e, t) ==
  LET r == TakeItem(Acquire(x.instances, e.id), x.running, e, t)
  IN [x EXCEPT !.instances = r.instances, !.running = r.running,
               !.events = IF r.missed THEN @ \cup {Event("missed", e.id)} ELSE @]
\* executor.submit_job: the instance slot is taken and the item handed to the
\* pool, where an idle thread takes it at once; with every thread busy it waits
\* in the work queue
SubmitJob(x, e, t) ==
  IF x.queue = <<>> /\ BagCardinality(x.running) < max_threads
    THEN LET r == TakeItem(Acquire(x.instances, e.id), x.running, e, t)
         IN [x EXCEPT !.instances = r.instances, !.running = r.running,
                      !.events = IF r.missed THEN @ \cup {Event("missed", e.id)} ELSE @]
    ELSE [x EXCEPT !.instances = Acquire(x.instances, e.id),
                   !.queue = Append(x.queue, e)]

\* the body of _process_jobs for the due jobs in order: submit, then set the
\* job's next_run_time from its last run time
RECURSIVE ProcessDue(_, _, _)
ProcessDue(order, x, t) ==
  IF order = <<>> THEN x
  ELSE LET id == Head(order)
           job == x.store[id]
           run_times == GetRunTimes(job.trigger, job.next_run_time, t)
           next == GetNextFireTime(job.trigger, run_times[Len(run_times)], t)
           y == IF CanSubmit(x.instances, id)
                  THEN SubmitJob(x, WorkItem(id, job, run_times), t)
                  ELSE [x EXCEPT !.skipped = @ \cup {id}]
       IN ProcessDue(Tail(order),
                     IF run_times = <<>> THEN x
                     ELSE [y EXCEPT !.store[id].next_run_time = next],
                     t)

\* the scheduler thread has a pass to make: the scheduler runs and a job is due
JobsDue ==
  /\ schedState = "running"
  /\ GetDueJobs(store, now) # {}
  \* the pass is taken while the items it may add fit within MaxItems
  /\ Len(queue) + BagCardinality(running)
       + Cardinality({id \in GetDueJobs(store, now) :
                        Inst(instances, id) < max_instances})
       <= MaxItems

\* BaseScheduler._process_jobs, run by the scheduler thread when a job is due
ProcessJobs ==
  /\ JobsDue
  /\ \E order \in DueOrders(store, now) :
       LET r == ProcessDue(order,
                           [store |-> store, instances |-> instances, queue |-> queue,
                            running |-> running, skipped |-> {}, events |-> {}], now)
       IN /\ store' = r.store
          /\ instances' = r.instances
          /\ queue' = r.queue
          /\ running' = r.running
          /\ skipped' = r.skipped
          /\ events' = r.events
  /\ selected' = GetDueJobs(store, now)
  /\ UNCHANGED <<now, schedState, runNow, escaped, config, removedIds, util>>
  /\ ret' = NoRet

\* --------------------------------------------------------- executions
\* _run_channel_scrape / _run_video_scrape / _run_playlist_scrape /
\* _run_search_scrape: how the job function ends when the scraper call ends with
\* outcome; `except Exception` logs the error and the function returns
RunScrape_VideoUncaught(func, outcome) ==
  IF func = "video" /\ outcome = "raise" THEN "raised" ELSE "returned"
RunScrape_NoCatch(func, outcome) == IF outcome = "raise" THEN "raised" ELSE "returned"
RunScrape(func, outcome) == "returned"

\* what the job function logs: the result, or the error it caught
JobLog(id, outcome, result) ==
  IF outcome = "ok" THEN {Event("completed", id)}
  ELSE IF result = "returned" THEN {Event("error", id)} ELSE {}

\* a pool thread is free and takes the first queued run_job call
PoolStart ==
  /\ queue # <<>>
  /\ BagCardinality(running) < max_threads
  /\ LET r == TakeItem(instances, running, Head(queue), now)
     IN /\ instances' = r.instances
        /\ running' = r.running
        /\ events' = IF r.missed THEN {Event("missed", Head(queue).id)} ELSE {}
  /\ queue' = Tail(queue)
  /\ UNCHANGED <<now, schedState, store, runNow, escaped, config, removedIds, util>>
  /\ ret' = NoRet
  /\ selected' = {}
  /\ skipped' = {}

\* the scraper call of a running work item ends; run_job goes on to the next run
\* time not missed, or is done and releases its instance slot
FetchEnd(e, outcome) ==
  /\ BagIn(e, running)
  /\ escaped' = IF RunScrape(e.func, outcome) = "raised"
                  THEN escaped \cup {e.id} ELSE escaped
  /\ LET r == TakeItem(instances, BagRemove(running, e),
                       [e EXCEPT !.run_times = Tail(@)], now)
     IN /\ instances' = r.instances
        /\ running' = r.running
        /\ events' = JobLog(e.id, outcome, RunScrape(e.func, outcome))
                        \cup (IF r.missed THEN {Event("missed", e.id)} ELSE {})
  /\ UNCHANGED <<now, schedState, store, queue, runNow, config, removedIds, util>>
  /\ ret' = NoRet
  /\ selected' = {}
  /\ skipped' = {}

\* ---------------------------------------------------- control surface
\* ids a control-surface call may name: those in the store and one that is not
CallIds == DOMAIN store \cup {UnknownId}

Bool(b) == IF b THEN "True" ELSE "False"

Found_Always(st, id) == TRUE
\* _lookup_job: JobLookupError for an id not in the store, which the `except
\* Exception` of remove_job, pause_job and resume_job turns into False
Found(st, id) == id \in DOMAIN st

RemoveFromStore_Keep(st, id) == st
\* scheduler.remove_job(job_id): JobLookupError for an id not in the store
RemoveFromStore(st, id) == [k \in DOMAIN st \ {id} |-> st[k]]

\* remove_job
RemoveJob(id) ==
  /\ schedState = "running"
  /\ ~runNow.active
  /\ store' = RemoveFromStore(store, id)
  /\ ret' = Ret("remove_job", id, Bool(Found(store, id)))
  /\ UNCHANGED <<now, schedState, instances, queue, running, runNow, escaped, config, removedIds,
                 util>>
  /\ selected' = {}
  /\ skipped' = {}
  /\ events' = {}

PauseInStore_KeepTime(st, id) == st
\* scheduler.pause_job(job_id): modify_job(next_run_time=None)
PauseInStore(st, id) ==
  IF id \in DOMAIN st THEN [st EXCEPT ![id].next_run_time = None] ELSE st

\* pause_job
PauseJob(id) ==
  /\ schedState = "running"
  /\ ~runNow.active
  /\ store' = PauseInStore(store, id)
  /\ ret' = Ret("pause_job", id, Bool(Found(store, id)))
  /\ UNCHANGED <<now, schedState, instances, queue, running, runNow, escaped, config, removedIds,
                 util>>
  /\ selected' = {}
  /\ skipped' = {}
  /\ events' = {}

ResumeInStore_FromNow(st, id, t) ==
  IF id \in DOMAIN st
    THEN [st EXCEPT ![id].next_run_time = GetNextFireTime(st[id].trigger, t, t)]
    ELSE st
\* scheduler.resume_job(job_id): next_run_time = trigger.get_next_fire_time(None, now)
ResumeInStore(st, id, t) ==
  IF id \in DOMAIN st
    THEN [st EXCEPT ![id].next_run_time = GetNextFireTime(st[id].trigger, None, t)]
    ELSE st

\* resume_job
ResumeJob(id) ==
  /\ schedState = "running"
  /\ ~runNow.active
  /\ store' = ResumeInStore(store, id, now)
  /\ ret' = Ret("resume_job", id, Bool(Found(store, id)))
  /\ UNCHANGED <<now, schedState, instances, queue, running, runNow, escaped, config, removedIds,
                 util>>
  /\ selected' = {}
  /\ skipped' = {}
  /\ events' = {}

RunJobNowCall_Never(st, id) == NoCall
RunJobNowCall_DefaultArgs(st, id) ==
  IF id \in DOMAIN st
    THEN [active |-> TRUE, id |-> id, func |-> st[id].func,
          args |-> <<st[id].args[1], FALSE>>]
    ELSE NoCall
\* run_job_now up to the call of the job function: the job is looked up and its
\* function called on the calling thread with the stored arguments
RunJobNowCall(st, id) ==
  IF id \in DOMAIN st
    THEN [active |-> TRUE, id |-> id, func |-> st[id].func, args |-> st[id].args]
    ELSE NoCall

RunJobNow(id) ==
  /\ schedState = "running"
  /\ ~runNow.active
  /\ runNow' = RunJobNowCall(store, id)
  /\ ret' = IF RunJobNowCall(store, id).active THEN NoRet
            ELSE Ret("run_job_now", id, "False")
  /\ UNCHANGED <<now, schedState, store, instances, queue, running, escaped, config, removedIds,
                 util>>
  /\ selected' = {}
  /\ skipped' = {}
  /\ events' = {}

\* run_job_now from the return of the job function: True, or False from the
\* `except Exception` around the call
RunJobNowReturn(outcome) ==
  /\ runNow.active
  /\ LET result == RunScrape(runNow.func, outcome)
     IN /\ escaped' = IF result = "raised" THEN escaped \cup {runNow.id} ELSE escaped
        /\ ret' = Ret("run_job_now", runNow.id, Bool(result = "returned"))
        /\ events' = JobLog(runNow.id, outcome, result)
  /\ runNow' = NoCall
  /\ UNCHANGED <<now, schedState, store, instances, queue, running, config, removedIds, util>>
  /\ selected' = {}
  /\ skipped' = {}

Next ==
  \/ Start
  \/ Shutdown
  \/ AdvanceClock
  \/ ScheduleChannelScrape
  \/ ScheduleVideoScrape
  \/ SchedulePlaylistScrape
  \/ ScheduleSearchScrape
  \/ ProcessJobs
  \/ PoolStart
  \/ \E e \in BagToSet(running), outcome \in Outcomes : FetchEnd(e, outcome)
  \/ \E id \in CallIds : RemoveJob(id)
  \/ \E id \in CallIds : PauseJob(id)
  \/ \E id \in CallIds : ResumeJob(id)
  \/ \E id \in CallIds : RunJobNow(id)
  \/ \E outcome \in Outcomes : RunJobNowReturn(outcome)

Spec == Init /\ [][Next]_vars

\* ------------------------------------------- the registry in use: SpecUse
\* SpecUse follows which jobs are in the store, and with what descriptor, over
\* the calls that create and remove jobs, the loading of the configuration and
\* the runs of the command line; the firing of jobs is followed by Spec.

\* a 'scheduled_jobs' entry; "" stands for a key the entry does not have, except
\* for the target, where NoTarget does
Entry(job_type, target, include_comments, schedule_type, job_id) ==
  [type |-> job_type, target |-> target, include_comments |-> include_comments,
   schedule_type |-> schedule_type, interval |-> 0, cron |-> "", id |-> job_id]
\* configuration files: no job; one job with an id; an entry of unknown type
\* and a video job without video_id, id and include_comments, of unknown
\* schedule type; two channel jobs, for two channels, without id
UseConfigs ==
  {<<>>,
   <<ConfigEntry("channel", "T", "a", 1)>>,
   <<Entry("audio", "T", "", "interval", "d"), Entry("video", NoTarget, "", "weekly", "")>>,
   <<Entry("channel", "T", "", "interval", ""), Entry("channel", "U", "", "interval", "")>>}

\* the calls made of each schedule method under SpecUse
UseCalls(job_type) ==
  IF job_type = "channel"
    THEN {Call("T", "", "interval", 1, "", "a"), Call("", "", "weekly", 0, "", "a")}
  ELSE IF job_type = "video" THEN {Call("T", "", "cron", 0, "", "a")}
  ELSE IF job_type = "playlist" THEN {Call(NoTarget, "True", "interval", 0, "", "")}
  ELSE {Call(NoTarget, "", "interval", 1, "", ""), Call("T", "", "cron", 0, "*/2", "a")}

InitUse ==
  /\ now = 0
  /\ schedState = "stopped"
  /\ store = <<>>
  /\ instances = <<>>
  /\ queue = <<>>
  /\ running = EmptyBag
  /\ runNow = NoCall
  /\ ret = NoRet
  /\ escaped = {}
  /\ selected = {}
  /\ skipped = {}
  /\ events = {}
  /\ config \in UseConfigs
  /\ removedIds = {}
  /\ util = NoUtil

\* schedule_<job_type>_scrape called with c on the running scheduler
UseScheduleCall(job_type, c) ==
  /\ schedState = "running"
  /\ Cardinality(DOMAIN store) < MaxJobs
  /\ LET r == ScheduleScrape(store, job_type, c.target,
                             CommentsOr(c.include_comments, SignatureDefault(job_type)),
                             c.schedule_type, c.interval, c.cron,
                             ExplicitId(c.job_id), now)
     IN /\ store' = r.store
        /\ ret' = Ret("schedule", r.id, IF r.raised THEN "raised" ELSE "ok")
        \* the exception is not caught: the process ends
        /\ schedState' = IF r.raised THEN "stopped" ELSE schedState
        /\ removedIds' = IF r.raised THEN removedIds ELSE removedIds \ {r.id}
  /\ UNCHANGED <<now, instances, queue, running, runNow, escaped, selected, skipped,
                 events, config, util>>

UseSchedule == \E job_type \in JobTypes : \E c \in UseCalls(job_type) : UseScheduleCall(job_type, c)

\* remove_job on the running scheduler
UseRemove(id) ==
  /\ schedState = "running"
  /\ Found(store, id) => Cardinality(removedIds \cup {id}) <= MaxRemoved
  /\ store' = RemoveFromStore(store, id)
  /\ ret' = Ret("remove_job", id, Bool(Found(store, id)))
  /\ removedIds' = IF Found(store, id) THEN removedIds \cup {id} ELSE removedIds
  /\ UNCHANGED <<now, schedState, instances, queue, running, runNow, escaped, selected,
                 skipped, events, config, util>>

\* ---- the command line: one step is one run of main(), a process of its own
\* what the process leaves behind: its exit code, and the state the job named
\* by --job-id was in when the operation was called ("" not in the store,
\* "uncalled" when the process ended before the call)
Exit(action, id, code, was) == [op |-> action, id |-> id, value |-> code, was |-> was]

\* the scheduler call behind --action run / remove / pause / resume
Applied(action, st, id, t) ==
  IF action = "cli_remove" THEN RemoveFromStore(st, id)
  ELSE IF action = "cli_pause" THEN PauseInStore(st, id)
  ELSE IF action = "cli_resume" THEN ResumeInStore(st, id, t)
  ELSE st

\* the exit code of main() after the operation returned success: main prints
\* the outcome and returns on both branches
ExitCodeAfter(success) == "0"

\* main() with --action run, remove, pause or resume: without --job-id it
\* returns at once; otherwise start(), the operation, shutdown()
MainJobAction(action, id, outcome) ==
  /\ schedState = "stopped"
  /\ (action = "cli_remove" /\ Found(store, id)) =>
       Cardinality(removedIds \cup {id}) <= MaxRemoved
  /\ IF id = NoJobId
       THEN /\ store' = store
            /\ ret' = Exit(action, id, "0", "uncalled")
            /\ events' = {}
            /\ removedIds' = removedIds
       ELSE LET r == AddScheduledJobsFromConfig(config, store, now)
            IN IF r.raised
                 \* the exception of start() ends the process with a traceback
                 THEN /\ store' = r.store
                      /\ ret' = Exit(action, id, "1", "uncalled")
                      /\ events' = {}
                      /\ removedIds' = removedIds
                 ELSE /\ store' = Applied(action, r.store, id, now)
                      /\ ret' = Exit(action, id, ExitCodeAfter(Found(r.store, id)),
                                     StateOf(r.store, id))
                      /\ events' = IF action = "cli_run" /\ Found(r.store, id)
                                     THEN JobLog(id, outcome,
                                                 RunScrape(r.store[id].func, outcome))
                                     ELSE {}
                      /\ removedIds' = IF action = "cli_remove" /\ Found(r.store, id)
                                         THEN removedIds \cup {id} ELSE removedIds
  /\ UNCHANGED <<now, schedState, instances, queue, running, runNow, escaped, selected,
                 skipped, config, util>>

\* the ids --job-id may name: those in the store, one that is not, and none
CliIds == DOMAIN store \cup {UnknownId, NoJobId}

MainRun == \E id \in CliIds, outcome \in Outcomes : MainJobAction("cli_run", id, outcome)
MainRemove == \E id \in CliIds : MainJobAction("cli_remove", id, "ok")
MainPause == \E id \in CliIds : MainJobAction("cli_pause", id, "ok")
MainResume == \E id \in CliIds : MainJobAction("cli_resume", id, "ok")

\* main() with --action list: start(), list_jobs(), shutdown()
MainList ==
  /\ schedState = "stopped"
  /\ LET r == AddScheduledJobsFromConfig(config, store, now)
     IN /\ store' = r.store
        /\ ret' = Exit("cli_list", UnknownId, IF r.raised THEN "1" ELSE "0", "uncalled")
  /\ UNCHANGED <<now, schedState, instances, queue, running, runNow, escaped, selected,
                 skipped, events, config, removedIds, util>>

\* include_comments=args.comments: the --comments flag is store_true, and False
\* without it
CliComments(job_type, flag) == flag

\* main() with --action start and one of --channel, --video, --playlist,
\* --search: start(), the schedule_* call without job_id, then the scheduler runs
\* until it is interrupted, and shutdown().  schedule_type is --schedule-type;
\* the interval is --interval-unit days, --interval-value 1 and the cron hour
\* --cron-hour 0 unless given
MainStartAdd(job_type, flag, schedule_type) ==
  /\ schedState = "stopped"
  /\ Cardinality(DOMAIN store) < MaxJobs
  /\ LET r == AddScheduledJobsFromConfig(config, store, now)
         a == ScheduleScrape(r.store, job_type, "T", CliComments(job_type, flag),
                             schedule_type,
                             IF schedule_type = "interval" THEN DayHours ELSE 0,
                             IF schedule_type = "cron" THEN "0" ELSE "",
                             NoJobId, now)
     IN IF r.raised
          THEN /\ store' = r.store
               /\ ret' = Exit("cli_start", UnknownId, "1", "uncalled")
               /\ removedIds' = removedIds
          ELSE /\ store' = a.store
               /\ ret' = Exit("cli_start", a.id, IF a.raised THEN "1" ELSE "0",
                              StateOf(r.store, a.id))
               /\ removedIds' = IF a.raised THEN removedIds ELSE removedIds \ {a.id}
  /\ UNCHANGED <<now, schedState, instances, queue, running, runNow, escaped, selected,
                 skipped, events, config, util>>

\* the command lines run with --action start: <<job type, --comments given,
\* --schedule-type>>
CliStarts ==
  {<<"video", FALSE, "interval">>, <<"channel", FALSE, "cron">>,
   <<"search", TRUE, "interval">>}

MainStart == \E c \in CliStarts : MainStartAdd(c[1], c[2], c[3])

\* ---- the job store fails: the SQLAlchemy job store raises on an operation
\* (the database file is unreadable, the disk is full)
StoreOps == {"add_job", "remove_job", "pause_job", "resume_job", "run_job_now"}

\* what the caller gets: schedule_*_scrape let the exception of add_job through;
\* remove_job, pause_job, resume_job and run_job_now catch Exception, log it and
\* return False
OnStoreError(op) == IF op = "add_job" THEN "raised" ELSE "False"

\* a control-surface call on a job of the store during which the store raises;
\* "failed" is what the lookup of the job came to
UseStoreFails(op, id) ==
  /\ schedState = "running"
  /\ ret' = [op |-> op, id |-> id, value |-> OnStoreError(op), was |-> "failed"]
  /\ schedState' = IF OnStoreError(op) = "raised" THEN "stopped" ELSE schedState
  /\ UNCHANGED <<now, store, instances, queue, running, runNow, escaped, selected,
                 skipped, events, config, removedIds, util>>

NextUse ==
  \/ Start
  \/ Shutdown
  \/ AdvanceClock
  \/ UseSchedule
  \/ \E id \in CallIds : UseRemove(id)
  \/ \E op \in StoreOps, id \in DOMAIN store : UseStoreFails(op, id)
  \/ MainStart
  \/ MainList
  \/ MainRun
  \/ MainRemove
  \/ MainPause
  \/ MainResume

SpecUse == InitUse /\ [][NextUse]_vars

\* ------------------------------------------------------------- claims
\* the run_job calls of job id in the pool, queued or running
ItemsOf(q, run, id) ==
  Cardinality({i \in 1..Len(q) : q[i].id = id})
    + BagCardinality([e \in {x \in BagToSet(run) : x.id = id} |-> run[e]])
\* the executions of job id's function on pool threads
ExecutingOf(run, id) ==
  BagCardinality([e \in {x \in BagToSet(run) : x.id = id} |-> run[e]])
ItemIds(q, run) == {q[i].id : i \in 1..Len(q)} \cup {e.id : e \in BagToSet(run)}

\* a step touches the work items and instance slots of job f alone
OnlyJob(f) ==
  /\ queue' = queue
  /\ \A e \in BagToSet(running) \cup BagToSet(running') :
       e.id # f => CopiesIn(e, running') = CopiesIn(e, running)
  /\ \A id \in (DOMAIN instances \cup DOMAIN instances') \ {f} :
       Inst(instances', id) = Inst(instances, id)

Logged(ev, kind) == {e.id : e \in {x \in ev : x.kind = kind}}

\* C1: when the scraper call of a firing raises, the job function catches it: no
\* exception leaves the job function, the scheduler keeps its state, the store
\* (every job's next_run_time) is untouched, and the work items and instance
\* slots of every other job are as before.
C1_FetchErrorIsolated ==
  [][/\ escaped' = {}
     /\ \A f \in Logged(events', "error") :
          /\ schedState' = schedState
          /\ store' = store
          /\ OnlyJob(f)]_vars

\* C1 witness: a scraper call has just failed and been logged while the
\* scheduler runs, and another job is waiting for its next run time.
C1_Witness ==
  /\ schedState = "running"
  /\ \E f \in Logged(events, "error") :
       \E id \in DOMAIN store \ {f} : store[id].next_run_time # None

C3_RunNowExcluded ==
  runNow.active => ExecutingOf(running, runNow.id) = 0

\* C3 as amended: run_job_now is not subject to the per-id limit.  On an existing
\* job it calls the job function at once, without checking or taking an instance
\* slot and without touching the work items, so that it runs beside the
\* tick-driven firings of the id, of which there are at most max_instances (3).
C3_RunNowBesideFirings ==
  [][/\ \A id \in DOMAIN store :
          RunJobNow(id) =>
            /\ runNow'.active /\ runNow'.id = id
            /\ instances' = instances
            /\ queue' = queue
            /\ running' = running
     /\ runNow'.active =>
          /\ ExecutingOf(running', runNow'.id) <= max_instances
          /\ ItemsOf(queue', running', runNow'.id) = Inst(instances', runNow'.id)]_vars

\* C3 witness: run_job_now executes a job while a tick-driven firing of the same
\* id executes.
C3_Witness ==
  /\ runNow.active
  /\ ExecutingOf(running, runNow.id) >= 1

\* C4: run_job_now on an existing job calls the job's function with the job's
\* stored arguments, and neither the call nor its return changes the store (the
\* job's next_run_time, state and trigger); it returns True.
C4_RunNowFrame ==
  [][/\ \A id \in DOMAIN store :
          RunJobNow(id) =>
            /\ runNow' = [active |-> TRUE, id |-> id, func |-> store[id].func,
                          args |-> store[id].args]
            /\ store' = store
     /\ (runNow.active /\ ~runNow'.active) =>
          /\ store' = store
          /\ ret'.op = "run_job_now" /\ ret'.value = "True"]_vars

\* C4 witness: run_job_now is executing a job stored with include_comments True,
\* with those arguments, and the job still has its next run time.
C4_Witness ==
  /\ runNow.active
  /\ runNow.id \in DOMAIN store
  /\ runNow.args = store[runNow.id].args
  /\ runNow.args[2]
  /\ store[runNow.id].next_run_time # None

\* C5: the job function is entered only for a run time at most
\* misfire_grace_time (1 hour) late at that moment; a later one is skipped and
\* logged as missed; and every job a pass selects leaves the pass with a
\* next_run_time in the future.
C5_MissedRunTimesSkipped ==
  [][/\ \A e \in BagToSet(running') :
          CopiesIn(e, running') > CopiesIn(e, running) =>
            now' - Head(e.run_times) <= misfire_grace_time
     /\ \A id \in selected' :
          /\ id \in DOMAIN store'
          /\ store'[id].next_run_time > now']_vars

\* C5 witness: a pass has just dispatched a job with a run time more than an hour
\* late: the run time was skipped as missed and the job has a future
\* next_run_time.
C5_Witness ==
  \E id \in Logged(events, "missed") :
    /\ id \in selected
    /\ store[id].next_run_time > now

\* C6: every job that a pass fires keeps its place in the store and gets a later
\* next_run_time, in the future, in that pass; the end of the firing, with
\* success or with failure, leaves the store as it is.
C6_RescheduledAfterFiring ==
  [][/\ \A id \in selected' :
          /\ id \in DOMAIN store'
          /\ store'[id].next_run_time # None
          /\ store'[id].next_run_time > store[id].next_run_time
          /\ store'[id].next_run_time > now
     /\ (Logged(events', "completed") \cup Logged(events', "error") # {}) =>
          store' = store]_vars

\* C6 witness: the scraper call of a tick-driven firing has just failed; its job
\* is in the store, Active, with a next_run_time in the future.
C6_Witness ==
  \E id \in Logged(events, "error") :
    /\ ret.op = ""
    /\ id \in DOMAIN store
    /\ store[id].next_run_time > now

\* C7: a job is Paused exactly when its next_run_time is None, an Active job has
\* a time as next_run_time, and pause_job on an existing job returns True and
\* leaves the job Paused with next_run_time None.
C7_PausedHasNoNextRun ==
  [][/\ \A id \in DOMAIN store' :
          IF JobState(store'[id]) = "Paused"
            THEN store'[id].next_run_time = None
            ELSE store'[id].next_run_time >= 0
     /\ \A id \in DOMAIN store :
          PauseJob(id) =>
            /\ ret'.value = "True"
            /\ id \in DOMAIN store'
            /\ JobState(store'[id]) = "Paused"
            /\ store'[id].next_run_time = None]_vars

\* C7 witness: pause_job has just returned True for a job that was Active and is
\* now Paused.
C7_Witness ==
  /\ ret.op = "pause_job" /\ ret.value = "True" /\ ret.was = "Active"
  /\ store[ret.id].next_run_time = None

\* C8: the jobs a pass selects are exactly the Active jobs with next_run_time <=
\* now, and a work item is added only by a pass and only for a job it selected.
C8_OnlyDueActiveSelected ==
  [][/\ selected' # {} =>
          selected' = {id \in DOMAIN store :
                         /\ JobState(store[id]) = "Active"
                         /\ store[id].next_run_time <= now}
     /\ \A id \in ItemIds(queue', running') :
          ItemsOf(queue', running', id) > ItemsOf(queue, running, id) =>
            id \in selected']_vars

\* C8 witness: a pass has just selected a due job and passed over a Paused job
\* and a job that is not yet due.
C8_Witness ==
  /\ selected # {}
  /\ \E id \in DOMAIN store \ selected :
       store[id].next_run_time = None \/ store[id].next_run_time > now + 1
  /\ \E id \in selected : ItemsOf(queue, running, id) > 0

C10_UnknownIdReturnsFalse ==
  [][\A id \in CallIds \ DOMAIN store :
       (RemoveJob(id) \/ PauseJob(id) \/ ResumeJob(id) \/ RunJobNow(id)) =>
         /\ ret'.value = "False"
         /\ ret'.id = id
         /\ store' = store
         /\ ~runNow'.active
         /\ queue' = queue /\ running' = running /\ instances' = instances
         /\ schedState' = schedState
         /\ escaped' = escaped
         /\ events' = {}]_vars

\* C10 witness: a call naming an id that is not in the store has just returned
\* False while the store holds a job.
C10_Witness ==
  /\ ret.value = "False"
  /\ ret.op \in {"remove_job", "pause_job", "resume_job", "run_job_now"}
  /\ ret.id \notin DOMAIN store
  /\ DOMAIN store # {}
  /\ schedState = "running"

\* the command-line actions that operate on the job named by --job-id
CliJobActions == {"cli_run", "cli_remove", "cli_pause", "cli_resume"}

\* C11: a run of main() with --action run, remove, pause or resume that reached
\* the operation ends with exit code 0 when the job was in the store (the
\* operation succeeded) and with a non-zero exit code when it was not.
C11_ExitCodeReportsOutcome ==
  (ret.op \in CliJobActions /\ ret.was # "uncalled") =>
    IF ret.was = "" THEN ret.value # "0" ELSE ret.value = "0"

\* C12: no job whose target is missing or empty is in the store: an add with such
\* a target, by a schedule_* call or from the configuration, fails and stores
\* nothing.
C12_NoJobWithoutTarget ==
  \A id \in DOMAIN store : store[id].args[1] \notin {"", NoTarget}

\* the schedule types _parse_schedule knows
KnownSchedules == {"interval", "cron"}

\* C13 as claimed: a schedule_* call whose schedule type is unknown is rejected:
\* it stores nothing.
C13_UnknownTypesRejected ==
  [][\A job_type \in JobTypes : \A c \in UseCalls(job_type) :
       (UseScheduleCall(job_type, c) /\ c.schedule_type \notin KnownSchedules) =>
         store' = store]_vars

\* C13 as amended: a configuration entry of unknown operation type is skipped: no
\* job of it enters the store (every stored job has one of the four job
\* functions) and the entries after it are still loaded.  A descriptor of unknown
\* schedule type is not rejected: unless its id is taken, the job is stored with
\* the 1-day interval trigger.
C13_UnknownTypeSkippedScheduleDefaulted ==
  [][/\ \A id \in DOMAIN store' : store'[id].func \in JobTypes
     /\ Start =>
          \A i \in DOMAIN config :
            /\ config[i].type \notin JobTypes =>
                 ExplicitId(config[i].id) \notin DOMAIN store'
            /\ (config[i].type \in JobTypes /\ ret'.value = "ok") =>
                 \E id \in DOMAIN store' \ DOMAIN store :
                   store'[id].func = config[i].type
     /\ \A job_type \in JobTypes : \A c \in UseCalls(job_type) :
          (UseScheduleCall(job_type, c) /\ c.schedule_type \notin KnownSchedules) =>
            IF ret'.was = ""
              THEN /\ ret'.value = "ok"
                   /\ ret'.id \in DOMAIN store'
                   /\ store'[ret'.id].trigger = IntervalTrigger(DayHours, now)
                   /\ store'[ret'.id].next_run_time = now + DayHours
              ELSE ret'.value = "raised" /\ store' = store]_vars

\* C13 witness: the schedule_channel_scrape call of schedule type 'weekly' (the
\* one with the empty channel id) has returned and its job is in the store with
\* the 1-day interval trigger.
C13_Witness ==
  /\ ret.op = "schedule" /\ ret.value = "ok"
  /\ ret.id \in DOMAIN store
  /\ store[ret.id].func = "channel" /\ store[ret.id].args[1] = ""
  /\ store[ret.id].trigger.interval = DayHours

\* the trigger the defaults of _parse_schedule give a job created at time t
DefaultedTrigger(job, c, t) ==
  /\ c.schedule_type \notin KnownSchedules => job.trigger = IntervalTrigger(DayHours, t)
  /\ (c.schedule_type = "interval" /\ c.interval = 0) =>
       /\ job.trigger = IntervalTrigger(DayHours, t)
       /\ job.next_run_time = t + DayHours
  /\ (c.schedule_type = "cron" /\ c.cron = "") =>
       /\ job.trigger.type = "cron" /\ job.trigger.hour = "0"
       /\ job.next_run_time >= t
       /\ job.next_run_time % DayHours = 0
       /\ job.next_run_time < t + DayHours

\* a schedule given with a type tag that is unknown, or without its fields
NeedsDefault(c) ==
  \/ c.schedule_type \notin KnownSchedules
  \/ c.schedule_type = "interval" /\ c.interval = 0
  \/ c.schedule_type = "cron" /\ c.cron = ""

\* C14: a schedule of unknown type resolves to the 1-day interval trigger, an
\* interval schedule without fields to the interval of 1 day and a cron schedule
\* without fields to hour 0 of every day, and no exception comes of it: the job
\* is created, by a schedule_* call and from the configuration alike.
C14_ScheduleDefaults ==
  [][/\ \A job_type \in JobTypes : \A c \in UseCalls(job_type) :
          (UseScheduleCall(job_type, c) /\ NeedsDefault(c) /\ ret'.was = "") =>
            /\ ret'.value = "ok"
            /\ ret'.id \in DOMAIN store'
            /\ DefaultedTrigger(store'[ret'.id], c, now)
     /\ (Start /\ ret'.value = "ok") =>
          \A i \in DOMAIN config :
            (config[i].type \in JobTypes /\ NeedsDefault(config[i])) =>
              \E id \in DOMAIN store' \ DOMAIN store :
                /\ store'[id].func = config[i].type
                /\ DefaultedTrigger(store'[id], config[i], now)]_vars

\* C14 witness: the schedule_video_scrape call with schedule type 'cron' and no
\* cron fields has returned and its job is stored with the cron trigger of hour
\* 0.
C14_Witness ==
  /\ ret.op = "schedule" /\ ret.value = "ok"
  /\ ret.id \in DOMAIN store
  /\ store[ret.id].func = "video"
  /\ store[ret.id].trigger.type = "cron" /\ store[ret.id].trigger.hour = "0"

\* the operations that add a job under a chosen or default id
AddOps == {"schedule", "cli_start"}

C17_RestartDoesNotFail ==
  ret.op = "start" => (ret.value = "ok" /\ schedState = "running")

\* C18: a job that remove_job has removed stays out of the store, on later
\* ticks and after later starts, until a schedule_* call or a command line with
\* --action start adds it again.
C18_RemovedStaysRemoved ==
  removedIds \cap DOMAIN store = {}

\* C19: remove_job and pause_job on a job with a firing in flight (a run_job
\* submitted to the executor and not finished) return True and leave the work
\* items and instance slots as they are, so the firing runs on; the job is then
\* out of the store or without a next run time, and no pass submits a firing
\* for an id that is not in the store with a next run time.
C19_CancelSparesInFlightStopsFuture ==
  [][/\ \A id \in DOMAIN store :
          (RemoveJob(id) \/ PauseJob(id)) =>
            /\ ret'.value = "True"
            /\ queue' = queue
            /\ running' = running
            /\ instances' = instances
            /\ id \in DOMAIN store' => store'[id].next_run_time = None
     /\ \A id \in DOMAIN instances' :
          Inst(instances', id) > Inst(instances, id) =>
            /\ id \in DOMAIN store
            /\ store[id].next_run_time # None]_vars

\* C19 witness: remove_job or pause_job has just returned True for a job one of
\* whose firings is executing on a pool thread.
C19_Witness ==
  /\ ret.op \in {"remove_job", "pause_job"}
  /\ ret.value = "True"
  /\ ExecutingOf(running, ret.id) > 0
  /\ ret.id \in DOMAIN store => store[ret.id].next_run_time = None

\* the include_comments a job of job_type is to fire with when none is given
DefaultComments(job_type) == job_type = "video"

\* C20: a job created without an include_comments value fires with False for a
\* channel, playlist or search job and with True for a video job, whether it is
\* created by a schedule_* call, from a configuration entry or from the command
\* line without --comments.
C20_DefaultCommentsOnEveryPath ==
  [][/\ \A job_type \in JobTypes : \A c \in UseCalls(job_type) :
          (UseScheduleCall(job_type, c) /\ c.include_comments = ""
             /\ ret'.value = "ok") =>
            store'[ret'.id].args[2] = DefaultComments(job_type)
     /\ (Start /\ ret'.value = "ok") =>
          \A i \in DOMAIN config :
            (config[i].type \in JobTypes /\ config[i].include_comments = "") =>
              \E id \in DOMAIN store' \ DOMAIN store :
                /\ store'[id].func = config[i].type
                /\ store'[id].args[2] = DefaultComments(config[i].type)
     /\ \A c \in CliStarts :
          (MainStartAdd(c[1], c[2], c[3]) /\ ~c[2] /\ ret'.value = "0") =>
            store'[ret'.id].args[2] = DefaultComments(c[1])]_vars

\* the interval jobs whose next_run_time a step resolves from the current time:
\* those it adds and those it resumes
ResolvedFromNow ==
  {id \in DOMAIN store' :
     /\ store'[id].trigger.type = "interval"
     /\ store'[id].next_run_time # None
     /\ id \in DOMAIN store => store[id].next_run_time = None}

C22_AtMostPoolSizeExecuting ==
  [][/\ BagCardinality(running') <= max_threads
     /\ BagCardinality(running) = max_threads =>
          BagCardinality(running') <= BagCardinality(running)
     /\ (selected' # {} /\ BagCardinality(running) = max_threads) =>
          /\ running' = running
          /\ Len(queue') = Len(queue) + Cardinality(selected' \ skipped')]_vars

\* C22 witness: every pool thread executes a job function and a submitted
\* run_job call waits in the work queue.
C22_Witness ==
  /\ BagCardinality(running) = max_threads
  /\ queue # <<>>

\* ----------------------------------------------------------- liveness
\* what the code's scheduling gives: the scheduler thread wakes up when a job is
\* due, an idle pool thread takes the next work item, time passes.  Nothing in
\* the code makes a scraper call return: _run_*_scrape call the scraper without
\* a timeout and the executor has none, so FetchEnd is not a fair action.
SpecLive ==
  /\ Init
  /\ [][Next]_vars
  \* weak fairness of ProcessJobs, which is enabled exactly when JobsDue holds
  /\ ([]<>(~JobsDue) \/ []<><<ProcessJobs>>_vars)
  /\ WF_vars(PoolStart)
  /\ WF_vars(AdvanceClock)

\* C23: every firing eventually ends and releases its pool thread: unless calls
\* of the control surface keep coming for ever, a busy executor (a job function
\* executing or a work item waiting) always becomes idle again.
C23_EveryFiringEnds ==
  \/ []<><<ret' # NoRet>>_vars
  \/ (running # EmptyBag \/ queue # <<>>) ~> (running = EmptyBag /\ queue = <<>>)

\* C24: a failure of the job store during a control-surface operation reaches
\* the caller as a failure: the call raises, it does not return the False that
\* stands for 'no such job'.
C24_StoreFailureReported ==
  ret.was = "failed" => ret.value = "raised"

\* the entries of the configuration that name a known job type
KnownEntries == {i \in DOMAIN config : config[i].type \in JobTypes}

\* C25: loading the configuration into an empty store registers every entry of
\* a known type as a job of its own, entries without an id included: start()
\* returns and the store holds as many jobs as there are such entries.
C25_EveryEntryRegistered ==
  [][(Start /\ store = <<>>) =>
       /\ ret'.value = "ok"
       /\ Cardinality(DOMAIN store') = Cardinality(KnownEntries)]_vars

\* C26: run_job_now returns True exactly when the job store holds a job of the
\* id: for such a job it calls the job function and returns True whether the
\* scraper call succeeded or raised, the error being caught and logged by the
\* job function; for an id that is not in the store it returns False and calls
\* no job function.
C26_RunNowTrueIffJobExists ==
  [][/\ \A id \in CallIds :
          RunJobNow(id) =>
            IF id \in DOMAIN store
              THEN runNow'.active /\ runNow'.id = id /\ ret' = NoRet
              ELSE ~runNow'.active /\ ret'.value = "False" /\ events' = {}
     /\ \A outcome \in Outcomes :
          RunJobNowReturn(outcome) =>
            /\ ret'.value = "True"
            /\ ret'.id = runNow.id
            /\ escaped' = escaped
            /\ outcome = "raise" => runNow.id \in Logged(events', "error")
     /\ ret'.op = "run_job_now" =>
          (ret'.value = "True" <=> ret'.id \in DOMAIN store')]_vars

\* C26 witness: run_job_now has just returned True for a job whose scraper call
\* raised.
C26_Witness ==
  /\ ret.op = "run_job_now" /\ ret.value = "True"
  /\ ret.id \in Logged(events, "error")
  /\ ret.id \in DOMAIN store

\* ------------------------------------------------- utils.py, scraper.py
\* The functions of utils.py and scraper.py are looked at one call at a time:
\* a call is given what its collaborators (the wrapped function, the API
\* client, pytube) do, and util holds what the call came to.

\* what one invocation of the wrapped function does: it returns, raises
\* googleapiclient.errors.HttpError with e.resp.status, or raises another
\* exception
Returns == [kind |-> "ok", status |-> 0]
HttpError(status) == [kind |-> "http", status |-> status]
OtherError == [kind |-> "error", status |-> 0]
FuncOutcomes == {Returns, HttpError(403), HttpError(429), HttpError(500), OtherError}

RECURSIVE Wrapper(_, _, _, _)
RECURSIVE Wrapper_RetryAnyHttp(_, _, _, _)
RECURSIVE Wrapper_LinearBackoff(_, _, _, _)

\* what a call came to: the result of the invocation numbered `of`, or the
\* exception `what`
Returned(of, invocations, waits) ==
  [result |-> "returned", of |-> of, what |-> "", invocations |-> invocations,
   waits |-> waits]
Raised(what, invocations, waits) ==
  [result |-> "raised", of |-> 0, what |-> what, invocations |-> invocations,
   waits |-> waits]

Wrapper_RetryAnyHttp(outcomes, retry_count, invocations, waits) ==
  IF retry_count < max_retries
    THEN LET o == outcomes[invocations + 1]
         IN IF o.kind = "ok" THEN Returned(invocations + 1, invocations + 1, waits)
            ELSE IF o.kind = "http"
              THEN Wrapper_RetryAnyHttp(outcomes, retry_count + 1, invocations + 1,
                                        Append(waits, 2 ^ (retry_count + 1)))
            ELSE Raised("error", invocations + 1, waits)
    ELSE Raised("Max retries exceeded", invocations, waits)
Wrapper_LinearBackoff(outcomes, retry_count, invocations, waits) ==
  IF retry_count < max_retries
    THEN LET o == outcomes[invocations + 1]
         IN IF o.kind = "ok" THEN Returned(invocations + 1, invocations + 1, waits)
            ELSE IF o.kind = "http"
              THEN IF o.status \in {403, 429}
                     THEN Wrapper_LinearBackoff(outcomes, retry_count + 1, invocations + 1,
                                                Append(waits, 2 * (retry_count + 1)))
                     ELSE Raised("http", invocations + 1, waits)
            ELSE Raised("error", invocations + 1, waits)
    ELSE Raised("Max retries exceeded", invocations, waits)
\* handle_rate_limit.wrapper: the while loop from retry_count, the wrapped
\* function having been invoked `invocations` times and time.sleep called with
\* `waits`
Wrapper(outcomes, retry_count, invocations, waits) ==
  IF retry_count < max_retries
    THEN LET o == outcomes[invocations + 1]
         IN IF o.kind = "ok" THEN Returned(invocations + 1, invocations + 1, waits)
            ELSE IF o.kind = "http"
              THEN IF o.status \in {403, 429}
                     THEN Wrapper(outcomes, retry_count + 1, invocations + 1,
                                  Append(waits, 2 ^ (retry_count + 1)))
                     ELSE Raised("http", invocations + 1, waits)
            ELSE Raised("error", invocations + 1, waits)
    ELSE Raised("Max retries exceeded", invocations, waits)

\* a call of a function wrapped by handle_rate_limit
HandleRateLimit(outcomes) == Wrapper(outcomes, 0, 0, <<>>)

\* ---- get_video_info
\* what videos().list(id=video_id).execute() does: a complete item, an item
\* without one of the keys read with [] (KeyError), no items, an exception
ApiAnswers == {"item", "incomplete", "no_items", "raise"}
VideoIds == {"v1", "v2"}

\* the record returned, and the calls made on the way
Record(video_id, source, error, calls) ==
  [raised |-> FALSE, video_id |-> video_id, source |-> source, error |-> error,
   calls |-> calls]

GetVideoInfo_FallbackUncaught(youtube, api, pytube, video_id) ==
  LET calls == IF youtube THEN <<"api">> ELSE <<>>
  IN IF youtube /\ api = "item" THEN Record(video_id, "api", FALSE, calls)
     ELSE IF pytube = "ok" THEN Record(video_id, "pytube", FALSE, Append(calls, "pytube"))
     ELSE [raised |-> TRUE, video_id |-> "", source |-> "", error |-> FALSE,
           calls |-> Append(calls, "pytube")]
\* get_video_info: the API when self.youtube is set, returning its record for a
\* complete item; otherwise, and after `except Exception`, pytube, whose failure
\* gives the record with 'error'
GetVideoInfo(youtube, api, pytube, video_id) ==
  LET calls == IF youtube THEN <<"api">> ELSE <<>>
  IN IF youtube /\ api = "item" THEN Record(video_id, "api", FALSE, calls)
     ELSE IF pytube = "ok" THEN Record(video_id, "pytube", FALSE, Append(calls, "pytube"))
     ELSE Record(video_id, "", TRUE, Append(calls, "pytube"))

\* ---- get_channel_videos, get_playlist_videos, search_videos
\* a page of playlistItems().list / search().list: its items and whether it
\* carries nextPageToken, or the request raises
Page(items, token) == [raises |-> FALSE, items |-> items, token |-> token]
PageError == [raises |-> TRUE, items |-> 0, token |-> FALSE]
ApiPages == {PageError} \cup {Page(n, token) : n \in 0..MaxPageItems, token \in BOOLEAN}
\* the page after the last one described: empty, without token
LastPage == Page(0, FALSE)
Listings == {"channel", "playlist", "search"}

Min(a, b) == IF a <= b THEN a ELSE b

\* the `while True` loop over the pages from page p, video_count records
\* appended so far: the for loop appends items until video_count reaches
\* max_results; the loop ends without nextPageToken or at max_results
RECURSIVE PageLoop(_, _, _, _)
PageLoop(pages, p, max_results, video_count) ==
  LET page == IF p <= Len(pages) THEN pages[p] ELSE LastPage
      count == video_count + Min(page.items, max_results - video_count)
  IN IF page.raises THEN [raised |-> TRUE, count |-> video_count, requests |-> p]
     ELSE IF ~page.token \/ count >= max_results
       THEN [raised |-> FALSE, count |-> count, requests |-> p]
     ELSE PageLoop(pages, p + 1, max_results, count)

\* the pytube loop over urls video urls, each of which gives a record: it starts
\* its own video_count at 0 and appends to the same list
FallbackLoop(urls, max_results) == Min(urls, max_results)

Listed(count, api, requests, source) ==
  [count |-> count, api |-> api, requests |-> requests, source |-> source]

\* get_channel_videos (after channels().list, which finds the uploads playlist,
\* finds none or raises), get_playlist_videos and search_videos: the records
\* returned.  `videos` is one list: what the API loop appended before an
\* exception stays in it when pytube takes over
GetVideos(listing, youtube, lookup, pages, urls, max_results) ==
  LET api == PageLoop(pages, 1, max_results, 0)
      looked == listing # "channel" \/ lookup = "found"
  IN IF listing = "search"
       THEN IF youtube THEN Listed(api.count, api.count, api.requests, "api")
            ELSE Listed(0, 0, 0, "")
     ELSE IF youtube /\ looked /\ ~api.raised
       THEN Listed(api.count, api.count, api.requests, "api")
     ELSE IF youtube /\ looked
       THEN Listed(api.count + FallbackLoop(urls, max_results), api.count,
                   api.requests, "pytube")
     ELSE Listed(FallbackLoop(urls, max_results), 0, 0, "pytube")

\* ---- the calls
schedulerVars ==
  <<now, schedState, store, instances, queue, running, runNow, ret, escaped, selected,
    skipped, events, config, removedIds>>

CallHandleRateLimit ==
  /\ util = NoUtil
  /\ \E outcomes \in [1..MaxCalls -> FuncOutcomes] :
       util' = [fn |-> "handle_rate_limit", in |-> outcomes,
                out |-> HandleRateLimit(outcomes)]
  /\ UNCHANGED schedulerVars

CallGetVideoInfo ==
  /\ util = NoUtil
  /\ \E youtube \in BOOLEAN, api \in ApiAnswers, pytube \in {"ok", "raise"},
        video_id \in VideoIds :
       util' = [fn |-> "get_video_info",
                in |-> [youtube |-> youtube, api |-> api, pytube |-> pytube,
                        video_id |-> video_id],
                out |-> GetVideoInfo(youtube, api, pytube, video_id)]
  /\ UNCHANGED schedulerVars

CallGetVideos(listing) ==
  /\ util = NoUtil
  /\ \E youtube \in BOOLEAN, pages \in [1..MaxPages -> ApiPages], urls \in 0..MaxUrls,
        max_results \in 1..MaxResults,
        lookup \in IF listing = "channel" THEN {"found", "none", "raise"} ELSE {"found"} :
       util' = [fn |-> listing,
                in |-> [youtube |-> youtube, lookup |-> lookup, pages |-> pages,
                        urls |-> urls, max_results |-> max_results],
                out |-> GetVideos(listing, youtube, lookup, pages, urls, max_results)]
  /\ UNCHANGED schedulerVars

CallGetChannelVideos == CallGetVideos("channel")
CallGetPlaylistVideos == CallGetVideos("playlist")
CallSearchVideos == CallGetVideos("search")

\* the call is over
CallDone ==
  /\ util # NoUtil
  /\ util' = NoUtil
  /\ UNCHANGED schedulerVars

NextLib ==
  \/ CallHandleRateLimit
  \/ CallGetVideoInfo
  \/ CallGetChannelVideos
  \/ CallGetPlaylistVideos
  \/ CallSearchVideos
  \/ CallDone

SpecLib == Init /\ [][NextLib]_vars

\* the statuses handle_rate_limit takes for a rate limit
RateLimited(o) == o.kind = "http" /\ o.status \in {403, 429}

\* C27: a call of a function wrapped by handle_rate_limit invokes the function
\* at most 3 times; it returns the result of the first invocation that succeeds,
\* every invocation before it having ended in a rate-limit error (403 or 429);
\* the waits are 2, 4 and 8 seconds in that order, one after each rate-limit
\* error; after the third rate-limit error it raises 'Max retries exceeded'.
\* Every call comes to an end: a result or an exception.
C27_AtMostThreeInvocations ==
  util.fn = "handle_rate_limit" =>
    LET o == util.out
        f == util.in
    IN /\ o.invocations <= 3
       /\ o.result \in {"returned", "raised"}
       /\ \A i \in 1..Len(o.waits) : o.waits[i] = 2 ^ i /\ RateLimited(f[i])
       /\ Len(o.waits) = Cardinality({i \in 1..o.invocations : RateLimited(f[i])})
       /\ o.result = "returned" =>
            /\ f[o.invocations] = Returns
            /\ o.of = o.invocations
            /\ \A i \in 1..(o.invocations - 1) : RateLimited(f[i])
       /\ (\A i \in 1..3 : RateLimited(f[i])) =>
            /\ o.result = "raised" /\ o.what = "Max retries exceeded"
            /\ o.invocations = 3
            /\ o.waits = <<2, 4, 8>>
       /\ (\E i \in 1..3 : f[i] = Returns /\ \A j \in 1..(i - 1) : RateLimited(f[j])) =>
            o.result = "returned"

\* C27 witness: a call has ended with 'Max retries exceeded' after three
\* invocations and the waits 2, 4, 8.
C27_Witness ==
  /\ util.fn = "handle_rate_limit"
  /\ util.out.what = "Max retries exceeded"
  /\ util.out.invocations = 3
  /\ util.out.waits = <<2, 4, 8>>

\* C28: in handle_rate_limit an HttpError of another status than 403 and 429,
\* and any other exception, leaves the wrapper when it first occurs: the
\* invocation that raised it is the last one and no wait follows it.
C28_OtherErrorsPropagateAtOnce ==
  util.fn = "handle_rate_limit" =>
    \A k \in 1..3 :
      (/\ util.in[k] # Returns /\ ~RateLimited(util.in[k])
       /\ \A i \in 1..(k - 1) : RateLimited(util.in[i])) =>
        /\ util.out.result = "raised"
        /\ util.out.what = util.in[k].kind
        /\ util.out.invocations = k
        /\ Len(util.out.waits) = k - 1

\* C28 witness: a call has raised the HttpError 500 of its second invocation,
\* after one rate-limit error and one wait.
C28_Witness ==
  /\ util.fn = "handle_rate_limit"
  /\ util.in[1] = HttpError(429) /\ util.in[2] = HttpError(500)
  /\ util.out.result = "raised" /\ util.out.what = "http"
  /\ util.out.waits = <<2>>

\* C29 as claimed: with a client, get_video_info returns the API record when an
\* item is found, and reaches pytube only without a client, when the API call
\* raised or when the API returned no items.
C29_FallbackOnlyWithoutItem ==
  util.fn = "get_video_info" =>
    /\ (util.in.youtube /\ util.in.api \in {"item", "incomplete"}) =>
         util.out.source = "api"
    /\ util.out.calls # <<"api">> =>
         (~util.in.youtube \/ util.in.api \in {"raise", "no_items"})

\* C29 as amended: get_video_info raises nothing and returns a record with the
\* video id asked for; with a client it calls the API first and returns the API
\* record when the item found has every required key; pytube is called in every
\* other case: no client, the API call raised, no items, or an item without a
\* required key; when pytube fails too the record has 'error'.
C29_NeverRaisesFallsBack ==
  util.fn = "get_video_info" =>
    LET o == util.out
        f == util.in
        viaApi == f.youtube /\ f.api = "item"
    IN /\ ~o.raised
       /\ o.video_id = f.video_id
       /\ f.youtube => o.calls[1] = "api"
       /\ IF viaApi
            THEN o.source = "api" /\ o.calls = <<"api">> /\ ~o.error
            ELSE /\ o.calls[Len(o.calls)] = "pytube"
                 /\ o.error <=> f.pytube = "raise"
                 /\ o.source = (IF f.pytube = "ok" THEN "pytube" ELSE "")

\* C29 witness: the API answered with an item that lacks a required key and the
\* record returned comes from pytube.
C29_Witness ==
  /\ util.fn = "get_video_info"
  /\ util.in.youtube /\ util.in.api = "incomplete"
  /\ util.out.source = "pytube"
  /\ util.out.video_id = util.in.video_id

\* C30: get_channel_videos, get_playlist_videos and search_videos return at most
\* max_results records.
C30_AtMostMaxResults ==
  util.fn \in Listings => util.out.count <= util.in.max_results

====
